---- MODULE Spec2Model ----
(***************************************************************************)
(* Model of interfazpinkaversijala.py: the CommandSender (rate-limit,      *)
(* coalescing, backoff, shutdown) as it is deployed at line 285, with      *)
(* after_fn = root.after.  queue, _pump and shutdown_sender run on the Tk  *)
(* event loop (one callback at a time); every _send runs on its own        *)
(* daemon thread and interleaves with the event loop between its lock      *)
(* sections.  One action is one lock section, or one stretch of code       *)
(* between two lock sections.  Times are in milliseconds.                  *)
(* Around it: the health check (verificar_conexion and its worker thread), *)
(* the distance poller (_poll_ultrasonico, started and stopped by the      *)
(* buttons and by the health-check worker), the parser of the distance     *)
(* reply and the bounded history dist_history.  SpecLock runs every        *)
(* "with self.lock:" block in two steps so that the lock is state;         *)
(* SpecLive adds the fairness of the event loop, the threads and the clock.*)
(***************************************************************************)
EXTENDS Integers, Sequences, FiniteSets, Bags

\* ------------------------------------------------------------ constants
RATE_LIMIT_MS == 160
MAX_FAILS == 4
ULTRA_POLL_MS == 180
DIST_HISTORY_LEN == 120

\* ------------------------------------------------------------ bounds
\* number of queue() calls explored under Spec
MaxSubmits == 3
\* number of queue() calls explored under SpecSerial
MaxSerialSubmits == 5
\* number of clock steps explored
MaxTicks == 1
\* the clock advances in steps of one rate-limit window
TickMs == RATE_LIMIT_MS
\* time.time()*1000 when the program starts: far more than a window after
\* last_ts = 0.0
StartMs == RATE_LIMIT_MS
MaxTime == StartMs + MaxTicks * TickMs

\* number of clock steps explored under SpecSerial and SpecLink
MaxSerialTicks == 2
\* number of verificar_conexion calls explored
MaxChecks == 2
\* number of verificar_conexion calls explored under SpecLink
MaxLinkChecks == 1
\* number of presses of the start button explored
MaxStarts == 2
\* number of runs of _poll_ultrasonico explored
MaxPolls == 2
\* number of append_dist calls explored under SpecHistory: three more than
\* DIST_HISTORY_LEN
MaxPushes == 123
\* number of those calls that push None
MaxAbsent == 1
\* length of the reply bodies enumerated under SpecParse
MaxBodyLen == 3

\* number of queue() calls explored under SpecLock
MaxLockSubmits == 2
\* number of queue() calls explored under SpecLive
MaxLiveSubmits == 2
\* number of clock steps SpecLive lets pass while no timer is waiting
MaxLiveTicks == 1

\* self.pending = None, ultra_job = None
None == 0

VARIABLES
    pending,      \* self.pending: None or the command (its submission number)
    inflight,     \* self.inflight
    last_ts,      \* self.last_ts
    fail_count,   \* self.fail_count
    shutdown,     \* self.shutdown
    now,          \* time.time()*1000
    ip_blank,     \* ent_ip.get().strip() is the empty string
    mainpc,       \* where the event loop is: "idle", "pump", "sched"
    wait_ms,      \* _pump's local wait_ms between its lock section and line 88
    timers,       \* root.after queue of _pump callbacks: sorted remaining delays
    threads,      \* bag of live _send threads: [pc, cmd, fc, late]; late: its
                  \* requests.get returned after shutdown_sender
    nSubmitted,   \* history: number of queue() calls so far
    superseded,   \* history: commands overwritten in pending by a later queue()
    sent,         \* history: commands taken by a _send (cmd_local)
    lastStart,    \* history: time the most recent requests.get of a _send began, -1 if none
    holdUntil,    \* history: end of the backoff of the most recent soft failure
    consecFails,  \* history: failed sends completed since the last completed 200
    nSoft,        \* history: number of on_soft_error calls
    nHard,        \* history: on_hard_disconnect calls since the last recorded success
    queuedBusy,   \* history: <<cmd, why>> for the queue() calls that found a send in
                  \* flight ("inflight") or the rate-limit window open ("window")
    lock          \* self.lock: Free, or who holds it: <<"main", section>> for the
                  \* event loop, <<"thread", th>> for the _send thread th

VARIABLES
    conectado,    \* estado["conectado"]
    workers,      \* bag of live health-check threads (do): [pc, job, n]; n: the
                  \* verificar_conexion call that started it
    nChecks,      \* history: number of verificar_conexion calls so far
    verdicts,     \* history: for each verificar_conexion call, "skipped" (no
                  \* address), "pending", or what http_alive returned: "ok", "fail"
    ultra_job,    \* ultra_job: None or the id root.after returned
    poll_timers,  \* root.after timers of _poll_ultrasonico: set of [id, ms]
    nJobs,        \* number of timer ids root.after has handed out for the poller
    dist_history, \* dist_history: the deque, oldest sample first
    pushed,       \* history: every sample append_dist was called with, in order
    nPolls,       \* history: number of runs of _poll_ultrasonico
    replies,      \* history: what each run of _poll_ultrasonico got from the network
    halted,       \* history: _stop_ultra_poll returned while no _start_ultra_poll
                  \* call was under way, and none ran since
    nStarts,      \* history: presses of the start button
    body,         \* r.text of a reply handed to _parse_distance_response
    parsed        \* what _parse_distance_response returned for it, Unparsed before

vars == <<pending, inflight, last_ts, fail_count, shutdown, now, ip_blank, mainpc, wait_ms,
          timers, threads, nSubmitted, superseded, sent, lastStart, holdUntil,
          consecFails, nSoft, nHard, queuedBusy, lock,
          conectado, workers, nChecks, verdicts, ultra_job,
          poll_timers, nJobs, dist_history, pushed, nPolls, replies, halted, nStarts,
          body, parsed>>

link == <<conectado, workers, nChecks, verdicts>>
poller == <<ultra_job, poll_timers, nJobs, nPolls, replies, halted, nStarts>>
samples == <<dist_history, pushed>>
parse == <<body, parsed>>
\* everything outside the CommandSender
outside == <<link, poller, samples, parse>>

dispatcher == <<pending, inflight, last_ts, fail_count, shutdown>>
history == <<nSubmitted, superseded, sent, lastStart, holdUntil, consecFails,
             nSoft, nHard, queuedBusy>>
\* everything of the CommandSender and its clock
sender == <<dispatcher, lock, now, ip_blank, mainpc, wait_ms, timers, threads, history>>

Max(a, b) == IF a >= b THEN a ELSE b
Min(a, b) == IF a <= b THEN a ELSE b

\* ------------------------------------------------------------ timers
\* root.after(ms, self._pump): the timer queue, kept sorted by remaining delay
RECURSIVE After(_, _)
After(q, ms) ==
    IF q = <<>> \/ ms <= Head(q) THEN <<ms>> \o q
    ELSE <<Head(q)>> \o After(Tail(q), ms)

\* the passing of d milliseconds in the timer queue
Elapse(q, d) == [i \in DOMAIN q |-> Max(0, q[i] - d)]

\* ------------------------------------------------------------ threads
Thread(pc, cmd, fc, late) == [pc |-> pc, cmd |-> cmd, fc |-> fc, late |-> late]
Live == BagToSet(threads)
Spawn(th) == threads (+) SetToBag({th})
Exit(th) == threads (-) SetToBag({th})
Step(th, th2) == (threads (-) SetToBag({th})) (+) SetToBag({th2})

\* ------------------------------------------------------------ lock
\* self.lock held by nobody
Free == <<"free">>

ReleaseLate(holder) == holder

\* the end of a "with self.lock:" block: holder, who is now past the block,
\* gives the lock up
Release(holder) == Free

\* ------------------------------------------------------------ distance reply
\* A reply body (r.text) is a sequence of characters.  A float is <<m, e>>,
\* the number m / 10^e with no trailing zero in its e decimals.
Digit == {"0", "1", "2", "5"}
DigitVal(c) == CASE c = "0" -> 0 [] c = "1" -> 1 [] c = "2" -> 2 [] c = "5" -> 5

\* d is None
NoDist == <<>>
\* float(...) raised
ValueError == <<>>
\* r.json() raised
JsonError == <<"error">>
\* no value returned yet
Unparsed == <<0, 0, 0>>

Null == <<"n", "u", "l", "l">>

AllDigits(s) == \A i \in DOMAIN s : s[i] \in Digit

RECURSIVE IntOf(_)
IntOf(s) ==
    IF s = <<>> THEN 0
    ELSE 10 * IntOf(SubSeq(s, 1, Len(s) - 1)) + DigitVal(s[Len(s)])

RECURSIVE Float(_, _)
Float(m, e) == IF e > 0 /\ m % 10 = 0 THEN Float(m \div 10, e - 1) ELSE <<m, e>>

\* str.strip()
Strip(s) ==
    LET ink == {i \in DOMAIN s : s[i] # " "}
    IN  IF ink = {} THEN <<>>
        ELSE SubSeq(s, CHOOSE i \in ink : \A j \in ink : i <= j,
                       CHOOSE i \in ink : \A j \in ink : i >= j)

\* str.replace(",", ".")
Replace(s) == [i \in DOMAIN s |-> IF s[i] = "," THEN "." ELSE s[i]]

\* str.lower()
Lower(s) ==
    [i \in DOMAIN s |-> CASE s[i] = "N" -> "n" [] s[i] = "U" -> "u" [] s[i] = "L" -> "l"
                          [] OTHER -> s[i]]

Dots(s) == {i \in DOMAIN s : s[i] = "."}

\* float(str) of an unsigned text: digits with at most one point and at least
\* one digit
UFloat(u) ==
    IF Cardinality(Dots(u)) = 0
    THEN IF u # <<>> /\ AllDigits(u) THEN Float(IntOf(u), 0) ELSE ValueError
    ELSE IF Cardinality(Dots(u)) = 1
    THEN LET k == CHOOSE i \in Dots(u) : TRUE
             ip == SubSeq(u, 1, k - 1)
             fp == SubSeq(u, k + 1, Len(u))
         IN  IF AllDigits(ip) /\ AllDigits(fp) /\ Len(ip) + Len(fp) > 0
             THEN Float(IntOf(ip \o fp), Len(fp))
             ELSE ValueError
    ELSE ValueError

\* float(str): blanks around the text and a sign before it are accepted
PyFloat(s) ==
    LET t == Strip(s)
    IN  IF t # <<>> /\ t[1] = "-"
        THEN IF UFloat(Tail(t)) = ValueError THEN ValueError
             ELSE <<0 - UFloat(Tail(t))[1], UFloat(Tail(t))[2]>>
        ELSE UFloat(t)

\* the integer part of a JSON number has no leading zero
JsonInt(u) == u # <<>> /\ AllDigits(u) /\ (Len(u) = 1 \/ u[1] # "0")

\* the JSON number grammar, without exponent
IsJsonNumber(t) ==
    LET u == IF t # <<>> /\ t[1] = "-" THEN Tail(t) ELSE t
    IN  IF Cardinality(Dots(u)) = 0 THEN JsonInt(u)
        ELSE IF Cardinality(Dots(u)) = 1
        THEN LET k == CHOOSE i \in Dots(u) : TRUE
             IN  /\ JsonInt(SubSeq(u, 1, k - 1))
                 /\ k < Len(u)
                 /\ AllDigits(SubSeq(u, k + 1, Len(u)))
        ELSE FALSE

IsJsonString(t) ==
    /\ Len(t) >= 2
    /\ t[1] = "\""
    /\ t[Len(t)] = "\""
    /\ \A i \in 2..(Len(t) - 1) : t[i] # "\""

\* a JSON number, null or string
JsonScalar(t) ==
    IF IsJsonNumber(t) THEN <<"num", PyFloat(t)>>
    ELSE IF t = Null THEN <<"null">>
    ELSE IF IsJsonString(t) THEN <<"str", SubSeq(t, 2, Len(t) - 1)>>
    ELSE JsonError

\* the index of the quote that closes the key of {"key":value}
KeyEnd(t) == CHOOSE k \in 3..Len(t) : t[k] = "\"" /\ \A i \in 3..(k - 1) : t[i] # "\""

IsJsonObject(t) ==
    /\ Len(t) >= 7
    /\ t[1] = "{"
    /\ t[2] = "\""
    /\ t[Len(t)] = "}"
    /\ \E k \in 3..Len(t) : t[k] = "\""
    /\ KeyEnd(t) + 2 <= Len(t) - 1
    /\ t[KeyEnd(t) + 1] = ":"
    /\ JsonScalar(Strip(SubSeq(t, KeyEnd(t) + 2, Len(t) - 1))) # JsonError

\* r.json(): a scalar, {} or an object with one key; JsonError when it raises
JsonLoads(s) ==
    LET t == Strip(s)
    IN  IF JsonScalar(t) # JsonError THEN JsonScalar(t)
        ELSE IF t = <<"{", "}">> THEN <<"dict", <<>>, <<"null">>>>
        ELSE IF IsJsonObject(t)
        THEN <<"dict", SubSeq(t, 3, KeyEnd(t) - 1),
               JsonScalar(Strip(SubSeq(t, KeyEnd(t) + 2, Len(t) - 1)))>>
        ELSE JsonError

\* _parse_distance_response, lines 360-365: the except branch
ParseText(b) ==
    LET txt == Strip(b)
    IN  IF txt # <<>> /\ Lower(txt) # Null
        THEN IF PyFloat(Replace(txt)) = ValueError THEN NoDist
             ELSE PyFloat(Replace(txt))
        ELSE NoDist

\* _parse_distance_response, line 357: float(j["cm"]); ValueError stands for
\* either exception float can raise here
FloatOfField(v) ==
    IF v[1] = "num" THEN v[2]
    ELSE IF v[1] = "str" THEN PyFloat(v[2])
    ELSE ValueError

\* _parse_distance_response, lines 353-366
ParseDistance(b) ==
    LET j == JsonLoads(b)
    IN  IF j = JsonError THEN ParseText(b)
        ELSE IF j[1] = "dict" /\ j[2] = <<"c", "m">>
        THEN IF FloatOfField(j[3]) = ValueError THEN ParseText(b)
             ELSE FloatOfField(j[3])
        ELSE NoDist

\* the body {"cm":v}
Cm(v) == <<"{", "\"", "c", "m", "\"", ":">> \o v \o <<"}">>

\* reply bodies the pico is seen or documented to send, and broken ones
NamedBodies ==
    { <<"1", "2", ".", "5">>, <<"1", "2", ",", "5">>, Null, <<"N", "U", "L", "L">>,
      <<"a", "b", "c">>, <<"{", "}">>,
      Cm(<<"1", "2", ".", "5">>), Cm(<<" ", "2", "5">>), Cm(Null),
      Cm(<<"\"", "a", "b", "c", "\"">>), Cm(<<"\"", "1", ",", "5", "\"">>),
      <<"{", "\"", "m", "m", "\"", ":", "5", "}">> }

Alphabet == {"0", "1", "5", ".", ",", "-", " ", "a"}

\* every text of at most MaxBodyLen characters, and the named ones
Bodies == NamedBodies \cup UNION {[1..n -> Alphabet] : n \in 0..MaxBodyLen}

\* the replies explored under SpecPoll
PollBodies == { <<"1", "2", ",", "5">>, <<"a", "b", "c">>, Cm(<<"2", "5">>) }

\* what _poll_ultrasonico got: no call made, requests.get raised, or a body
NoCall == <<"skip">>
Raised == <<"raise">>

Init ==
    /\ pending = None
    /\ inflight = FALSE
    /\ last_ts = 0
    /\ fail_count = 0
    /\ shutdown = FALSE
    /\ now = StartMs
    /\ ip_blank = FALSE
    /\ mainpc = "idle"
    /\ wait_ms = 0
    /\ timers = <<>>
    /\ threads = EmptyBag
    /\ nSubmitted = 0
    /\ superseded = {}
    /\ sent = {}
    /\ lastStart = -1
    /\ holdUntil = 0
    /\ consecFails = 0
    /\ nSoft = 0
    /\ nHard = 0
    /\ queuedBusy = {}
    /\ lock = Free
    /\ conectado = FALSE
    /\ workers = EmptyBag
    /\ nChecks = 0
    /\ verdicts = <<>>
    /\ ultra_job = None
    /\ poll_timers = {}
    /\ nJobs = 0
    /\ dist_history = <<>>
    /\ pushed = <<>>
    /\ nPolls = 0
    /\ replies = <<>>
    /\ halted = FALSE
    /\ nStarts = 0
    /\ body = <<>>
    /\ parsed = Unparsed

\* ------------------------------------------------------------ event loop
QueueKeepsOld(old, cmd) == IF old # None THEN old ELSE cmd

\* queue, lines 78-79: what the lock section writes to self.pending
QueueWrite(old, cmd) == cmd

\* queue(cmd), lines 77-80; the call of _pump at line 80 follows as PumpLock
Enqueue ==
    /\ mainpc = "idle"
    /\ nSubmitted' = nSubmitted + 1
    /\ pending' = QueueWrite(pending, nSubmitted + 1)
    /\ superseded' = IF pending # None THEN superseded \cup {pending} ELSE superseded
    /\ mainpc' = "pump"
    /\ lock' = Release(<<"main", "queue">>)
    /\ UNCHANGED outside
    /\ UNCHANGED <<inflight, last_ts, fail_count, shutdown, now, ip_blank, wait_ms, timers,
                   threads, sent, lastStart, holdUntil, consecFails, nSoft,
                   nHard>>

\* the same, with no record of what the call found
Queue == Enqueue /\ UNCHANGED queuedBusy

\* a button, a key or the joystick poll calls sender.queue at any time
Submit == nSubmitted < MaxSubmits /\ Queue

\* the same, by a caller that waits until no _send thread is running
SubmitQuiet == nSubmitted < MaxSerialSubmits /\ threads = EmptyBag /\ Queue

\* a due root.after callback runs _pump on the event loop
TimerFire ==
    /\ mainpc = "idle"
    /\ timers # <<>>
    /\ Head(timers) = 0
    /\ timers' = Tail(timers)
    /\ mainpc' = "pump"
    /\ UNCHANGED lock
    /\ UNCHANGED outside
    /\ UNCHANGED <<dispatcher, now, ip_blank, wait_ms, threads, history>>

\* _pump, line 84: the early return
PumpReturns(infl, pend, shut) == infl \/ pend = None \/ shut

\* _pump, line 87
WaitMs(t, last) == Max(0, RATE_LIMIT_MS - (t - last))

\* _pump, lines 83-87: the lock section
PumpLock ==
    /\ mainpc = "pump"
    /\ IF PumpReturns(inflight, pending, shutdown)
       THEN /\ mainpc' = "idle"
            /\ wait_ms' = 0
       ELSE /\ mainpc' = "sched"
            /\ wait_ms' = WaitMs(now, last_ts)
    /\ lock' = Release(<<"main", "pump">>)
    /\ UNCHANGED outside
    /\ UNCHANGED <<dispatcher, now, ip_blank, timers, threads, history>>

\* _pump, lines 88-93 and 127: re-arm the timer, or start a _send thread
PumpSched ==
    /\ mainpc = "sched"
    /\ IF wait_ms > 0
       THEN /\ timers' = After(timers, wait_ms)
            /\ UNCHANGED threads
       ELSE /\ threads' = Spawn(Thread("start", None, 0, FALSE))
            /\ UNCHANGED timers
    /\ mainpc' = "idle"
    /\ wait_ms' = 0
    /\ UNCHANGED lock
    /\ UNCHANGED outside
    /\ UNCHANGED <<dispatcher, now, ip_blank, history>>

\* shutdown_sender, lines 144-147: what the lock section leaves in pending
ShutdownPending(pend) == None

\* shutdown_sender, lines 144-147 (called from _on_close on the event loop)
Shutdown ==
    /\ mainpc = "idle"
    /\ shutdown' = TRUE
    /\ pending' = ShutdownPending(pending)
    /\ lock' = Release(<<"main", "shutdown">>)
    /\ UNCHANGED outside
    /\ UNCHANGED <<inflight, last_ts, fail_count, now, ip_blank, mainpc, wait_ms, timers,
                   threads, history>>

\* ------------------------------------------------------------ _send thread
SendIgnoresShutdown(pend, shut) == pend = None

\* _send, line 97: the thread gives up
SendReturns(pend, shut) == pend = None \/ shut

\* _send, lines 96-102: the lock section that takes pending
SendStart(th) ==
    /\ th.pc = "start"
    /\ IF SendReturns(pending, shutdown)
       THEN /\ inflight' = FALSE
            /\ threads' = Exit(th)
            /\ lock' = Release(<<"thread", th>>)
            /\ UNCHANGED <<pending, sent>>
       ELSE /\ threads' = Step(th, Thread("taken", pending, 0, FALSE))
            /\ pending' = None
            /\ inflight' = TRUE
            /\ sent' = sent \cup {pending}
            /\ lock' = Release(<<"thread", Thread("taken", pending, 0, FALSE)>>)
    /\ UNCHANGED outside
    /\ UNCHANGED <<last_ts, fail_count, shutdown, now, ip_blank, mainpc, wait_ms, timers,
                   nSubmitted, superseded, lastStart, holdUntil, consecFails, nSoft,
                   nHard, queuedBusy>>

\* _send, lines 104-110: read the address; an empty one raises into line 117,
\* any other starts requests.get
SendResolve(th) ==
    /\ th.pc = "taken"
    /\ IF ip_blank
       THEN /\ threads' = Step(th, Thread("regfail", th.cmd, 0, FALSE))
            /\ consecFails' = consecFails + 1
            /\ UNCHANGED lastStart
       ELSE /\ threads' = Step(th, Thread("http", th.cmd, 0, FALSE))
            /\ lastStart' = now
            /\ UNCHANGED consecFails
    /\ UNCHANGED lock
    /\ UNCHANGED outside
    /\ UNCHANGED <<dispatcher, now, ip_blank, mainpc, wait_ms, timers, nSubmitted,
                   superseded, sent, holdUntil, nSoft, nHard, queuedBusy>>

\* _send, lines 108-118: requests.get returns 200, or returns another status
\* or raises
SendHttpDone(th) ==
    /\ th.pc = "http"
    /\ \E ok \in BOOLEAN :
          IF ok
          THEN /\ threads' = Step(th, Thread("success", th.cmd, 0, shutdown))
               /\ consecFails' = 0
          ELSE /\ threads' = Step(th, Thread("regfail", th.cmd, 0, shutdown))
               /\ consecFails' = consecFails + 1
    /\ UNCHANGED lock
    /\ UNCHANGED outside
    /\ UNCHANGED <<dispatcher, now, ip_blank, mainpc, wait_ms, timers, nSubmitted,
                   superseded, sent, lastStart, holdUntil, nSoft, nHard, queuedBusy>>

\* _send, lines 112-114: the lock section after a 200
SendSuccess(th) ==
    /\ th.pc = "success"
    /\ fail_count' = 0
    /\ last_ts' = now
    /\ threads' = Step(th, Thread("finally", th.cmd, 0, th.late))
    /\ nHard' = 0
    /\ holdUntil' = 0
    /\ lock' = Release(<<"thread", Thread("finally", th.cmd, 0, th.late)>>)
    /\ UNCHANGED outside
    /\ UNCHANGED <<pending, inflight, shutdown, now, ip_blank, mainpc, wait_ms, timers,
                   nSubmitted, superseded, sent, lastStart, consecFails, nSoft,
                   queuedBusy>>

\* _register_fail, lines 130-132: the lock section
RegisterFailLock(th) ==
    /\ th.pc = "regfail"
    /\ fail_count' = fail_count + 1
    /\ threads' = Step(th, Thread("notify", th.cmd, fail_count + 1, th.late))
    /\ lock' = Release(<<"thread", Thread("notify", th.cmd, fail_count + 1, th.late)>>)
    /\ UNCHANGED outside
    /\ UNCHANGED <<pending, inflight, last_ts, shutdown, now, ip_blank, mainpc, wait_ms,
                   timers, history>>

\* _register_fail, line 133: soft error or hard disconnect
IsSoft(fc) == fc < MAX_FAILS

\* _register_fail, line 136
BackoffMs(fc) == Min(2000, fc * 200)

\* _register_fail, lines 133-142: the callback and the backoff timer
RegisterFailNotify(th) ==
    /\ th.pc = "notify"
    /\ IF IsSoft(th.fc)
       THEN /\ nSoft' = nSoft + 1
            /\ timers' = After(timers, BackoffMs(th.fc))
            /\ holdUntil' = now + BackoffMs(th.fc)
            /\ UNCHANGED nHard
       ELSE /\ nHard' = nHard + 1
            /\ UNCHANGED <<nSoft, timers, holdUntil>>
    /\ threads' = Step(th, Thread("finally", th.cmd, 0, th.late))
    /\ UNCHANGED lock
    /\ UNCHANGED outside
    /\ UNCHANGED <<dispatcher, now, ip_blank, mainpc, wait_ms, nSubmitted, superseded,
                   sent, lastStart, consecFails, queuedBusy>>

\* _send, lines 119-121: the finally lock section
SendFinally(th) ==
    /\ th.pc = "finally"
    /\ inflight' = FALSE
    /\ threads' = Step(th, Thread("repump", th.cmd, 0, th.late))
    /\ lock' = Release(<<"thread", Thread("repump", th.cmd, 0, th.late)>>)
    /\ UNCHANGED outside
    /\ UNCHANGED <<pending, last_ts, fail_count, shutdown, now, ip_blank, mainpc, wait_ms,
                   timers, history>>

RepumpNever(q) == q

\* _send, line 123: self._after(0, self._pump)
Repump(q) == After(q, 0)

\* _send, lines 122-123: self._after(0, self._pump), and the thread ends
SendRepump(th) ==
    /\ th.pc = "repump"
    /\ timers' = Repump(timers)
    /\ threads' = Exit(th)
    /\ UNCHANGED lock
    /\ UNCHANGED outside
    /\ UNCHANGED <<dispatcher, now, ip_blank, mainpc, wait_ms, history>>

\* ------------------------------------------------------------ clock
\* the user clears or fills in the address entry ent_ip (lines 186-187)
EditIp ==
    /\ mainpc = "idle"
    /\ ip_blank' = ~ip_blank
    /\ UNCHANGED lock
    /\ UNCHANGED outside
    /\ UNCHANGED <<dispatcher, now, mainpc, wait_ms, timers, threads, history>>

\* time passes; nothing obliges the event loop or a thread to run on time
Tick ==
    /\ now < MaxTime
    /\ now' = now + TickMs
    /\ timers' = Elapse(timers, TickMs)
    /\ UNCHANGED lock
    /\ UNCHANGED outside
    /\ UNCHANGED <<dispatcher, ip_blank, mainpc, wait_ms, threads, history>>

\* the same clock, run for MaxSerialTicks steps
TickSerial ==
    /\ now < StartMs + MaxSerialTicks * TickMs
    /\ now' = now + TickMs
    /\ timers' = Elapse(timers, TickMs)
    /\ UNCHANGED lock
    /\ UNCHANGED outside
    /\ UNCHANGED <<dispatcher, ip_blank, mainpc, wait_ms, threads, history>>

SendThread ==
    \E th \in Live :
        \/ SendStart(th)
        \/ SendResolve(th)
        \/ SendHttpDone(th)
        \/ SendSuccess(th)
        \/ RegisterFailLock(th)
        \/ RegisterFailNotify(th)
        \/ SendFinally(th)
        \/ SendRepump(th)

Next ==
    \/ Submit
    \/ TimerFire
    \/ PumpLock
    \/ PumpSched
    \/ Shutdown
    \/ EditIp
    \/ SendThread
    \/ Tick

Spec == Init /\ [][Next]_vars

\* the dispatcher driven by a caller that never submits while a send runs
\* and leaves the address entry as line 187 filled it
NextSerial ==
    \/ SubmitQuiet
    \/ TimerFire
    \/ PumpLock
    \/ PumpSched
    \/ Shutdown
    \/ SendThread
    \/ TickSerial

SpecSerial == Init /\ [][NextSerial]_vars

\* ------------------------------------------------------------ fair scheduling
\* the first queue(cmd) at any time and every later one while the dispatcher
\* is busy, with a record of what the call found: a send in flight, or no
\* send in flight and less than RATE_LIMIT_MS since last_ts
SubmitLive ==
    /\ nSubmitted < MaxLiveSubmits
    /\ nSubmitted = 0 \/ inflight \/ WaitMs(now, last_ts) > 0
    /\ Enqueue
    /\ queuedBusy' = queuedBusy
          \cup (IF inflight THEN {<<nSubmitted + 1, "inflight">>} ELSE {})
          \cup (IF ~inflight /\ WaitMs(now, last_ts) > 0
                THEN {<<nSubmitted + 1, "window">>} ELSE {})

\* a root.after timer of _pump has time left to wait
Waiting == \E i \in DOMAIN timers : timers[i] > 0

\* time passes: MaxLiveTicks steps at any time, and whenever a timer waits
TickLive ==
    /\ now < StartMs + MaxLiveTicks * TickMs \/ Waiting
    /\ now' = now + TickMs
    /\ timers' = Elapse(timers, TickMs)
    /\ UNCHANGED lock
    /\ UNCHANGED outside
    /\ UNCHANGED <<dispatcher, ip_blank, mainpc, wait_ms, threads, history>>

\* the dispatcher that is never shut down
NextLive ==
    \/ SubmitLive
    \/ TimerFire
    \/ PumpLock
    \/ PumpSched
    \/ SendThread
    \/ TickLive

\* the Tk event loop runs every due callback and every callback to its end,
\* the operating system runs every started thread, requests.get returns
\* (timeout=TIMEOUT), and time passes
Fairness ==
    /\ WF_vars(TimerFire)
    /\ WF_vars(PumpLock)
    /\ WF_vars(PumpSched)
    /\ WF_vars(SendThread)
    /\ WF_vars(TickLive)

SpecLive == Init /\ [][NextLive]_vars /\ Fairness

\* ------------------------------------------------------------ lock discipline
\* "with self.lock:" entered: the lock is taken when nobody holds it
Acquire(holder) ==
    /\ lock = Free
    /\ lock' = holder
    /\ UNCHANGED outside
    /\ UNCHANGED <<dispatcher, now, ip_blank, mainpc, wait_ms, timers, threads, history>>

\* the event loop is inside a "with self.lock:" block
MainHolds == lock[1] = "main"

\* queue, line 78, and lines 78-79 under the lock
QueueEnter == mainpc = "idle" /\ nSubmitted < MaxLockSubmits /\ Acquire(<<"main", "queue">>)
QueueLocked == lock = <<"main", "queue">> /\ Queue

\* _pump, line 83, and lines 83-87 under the lock
PumpEnter == mainpc = "pump" /\ Acquire(<<"main", "pump">>)
PumpLocked == lock = <<"main", "pump">> /\ PumpLock

\* shutdown_sender, line 145, and lines 145-147 under the lock
ShutdownEnter == mainpc = "idle" /\ Acquire(<<"main", "shutdown">>)
ShutdownLocked == lock = <<"main", "shutdown">> /\ Shutdown

\* a due callback, or the user at the address entry, while the event loop is
\* not inside queue or shutdown_sender
TimerFireLoop == ~MainHolds /\ TimerFire
EditIpLoop == ~MainHolds /\ EditIp

\* the positions of a _send thread before a "with self.lock:" block: lines
\* 96, 112, 130 and 120
SectionPcs == {"start", "success", "regfail", "finally"}

\* a _send thread enters one of its "with self.lock:" blocks
SendEnter == \E th \in Live : th.pc \in SectionPcs /\ Acquire(<<"thread", th>>)

\* a _send thread runs the block it entered
SendLocked ==
    \E th \in Live :
        /\ lock = <<"thread", th>>
        /\ \/ SendStart(th)
           \/ SendSuccess(th)
           \/ RegisterFailLock(th)
           \/ SendFinally(th)

\* a _send thread runs code outside every "with self.lock:" block
SendUnlocked ==
    \E th \in Live :
        \/ SendResolve(th)
        \/ SendHttpDone(th)
        \/ RegisterFailNotify(th)
        \/ SendRepump(th)

\* the dispatcher with every "with self.lock:" block in two steps: the lock
\* taken, then the block run and the lock given up
NextLock ==
    \/ QueueEnter
    \/ QueueLocked
    \/ PumpEnter
    \/ PumpLocked
    \/ PumpSched
    \/ ShutdownEnter
    \/ ShutdownLocked
    \/ TimerFireLoop
    \/ EditIpLoop
    \/ SendEnter
    \/ SendLocked
    \/ SendUnlocked
    \/ Tick

SpecLock == Init /\ [][NextLock]_vars

\* ------------------------------------------------------------ history
DequeAppendUnbounded(h, d) == Append(h, d)

\* dist_history.append on a deque(maxlen=DIST_HISTORY_LEN), lines 278, 411, 413
DequeAppend(h, d) == IF Len(h) >= DIST_HISTORY_LEN THEN Tail(h) \o <<d>> ELSE Append(h, d)

\* append_dist(d), lines 408-413: what it does to the history, before it
\* redraws
AppendDist(d) ==
    /\ dist_history' = DequeAppend(dist_history, d)
    /\ pushed' = Append(pushed, d)

\* the None among the samples pushed so far
Absent == {i \in DOMAIN pushed : pushed[i] = NoDist}

\* append_dist called with the next reading (the k-th call pushes k), or
\* with None
PushDist ==
    /\ Len(pushed) < MaxPushes
    /\ \E d \in {Float(Len(pushed) + 1, 0)}
                  \cup (IF Cardinality(Absent) < MaxAbsent THEN {NoDist} ELSE {}) :
          AppendDist(d)
    /\ UNCHANGED <<sender, link, poller, parse>>

SpecHistory == Init /\ [][PushDist]_vars

\* ------------------------------------------------------------ parser
\* a reply of GET /distancia arrives with body b
Receive ==
    /\ \E b \in Bodies : body' = b
    /\ parsed' = Unparsed
    /\ UNCHANGED <<sender, link, poller, samples>>

\* d = _parse_distance_response(r), line 379
Parse ==
    /\ parsed = Unparsed
    /\ parsed' = ParseDistance(body)
    /\ UNCHANGED <<body, sender, link, poller, samples>>

SpecParse == Init /\ [][Receive \/ Parse]_vars

\* ------------------------------------------------------------ poller
\* root.after(ms, _poll_ultrasonico) returning the timer id
Arm(jobs, id, ms) == jobs \cup {[id |-> id, ms |-> ms]}

\* _poll_ultrasonico, lines 374 and 395
Rearm(jobs, id) == Arm(jobs, id, ULTRA_POLL_MS)

\* _poll_ultrasonico, line 370: the tick goes to the network
PollAttempts(conn) == conn

\* what requests.get of line 378 can give; an empty address makes it raise
PollReplies ==
    IF ~PollAttempts(conectado) THEN {NoCall}
    ELSE IF ip_blank THEN {Raised}
    ELSE {Raised} \cup PollBodies

\* _poll_ultrasonico, lines 372 and 379-394: the sample handed to append_dist
PollSample(r) == IF r \in {NoCall, Raised} THEN NoDist ELSE ParseDistance(r)

\* draw_graph, lines 424-451, called by append_dist at line 414: with a
\* reading in the history it reaches create_polygon with the colour
\* fill_color+"22", eight hex digits, which Tk rejects with a TclError
DrawGraphRaises(h) == \E i \in DOMAIN h : h[i] # NoDist

\* _poll_ultrasonico, lines 368-395: the timer t fires and the handler runs on
\* the event loop, to its end or to the TclError of append_dist, which the
\* except of line 393 does not catch and which skips lines 374 and 395
PollTick(t) ==
    /\ mainpc = "idle"
    /\ nPolls < MaxPolls
    /\ \E r \in PollReplies :
          /\ replies' = Append(replies, r)
          /\ AppendDist(PollSample(r))
          /\ IF DrawGraphRaises(DequeAppend(dist_history, PollSample(r)))
             THEN /\ poll_timers' = poll_timers \ {t}
                  /\ UNCHANGED <<ultra_job, nJobs>>
             ELSE /\ poll_timers' = Rearm(poll_timers \ {t}, nJobs + 1)
                  /\ ultra_job' = nJobs + 1
                  /\ nJobs' = nJobs + 1
    /\ nPolls' = nPolls + 1
    /\ UNCHANGED <<halted, nStarts, sender, link, parse>>

\* _start_ultra_poll, lines 397-400, called by the start button
StartUltra ==
    /\ mainpc = "idle"
    /\ nStarts < MaxStarts
    /\ nStarts' = nStarts + 1
    /\ halted' = FALSE
    /\ IF ultra_job = None
       THEN /\ poll_timers' = Arm(poll_timers, nJobs + 1, 40)
            /\ ultra_job' = nJobs + 1
            /\ nJobs' = nJobs + 1
       ELSE UNCHANGED <<poll_timers, ultra_job, nJobs>>
    /\ UNCHANGED <<nPolls, replies, sender, link, samples, parse>>

\* _stop_ultra_poll, lines 402-405, called by the stop button
StopUltra ==
    /\ mainpc = "idle"
    /\ halted' = (\A w \in BagToSet(workers) : w.pc = "ping")
    /\ IF ultra_job # None
       THEN /\ poll_timers' = {t \in poll_timers : t.id # ultra_job}
            /\ ultra_job' = None
       ELSE UNCHANGED <<poll_timers, ultra_job>>
    /\ UNCHANGED <<nJobs, nPolls, replies, nStarts, sender, link, samples, parse>>

\* ------------------------------------------------------------ health check
Worker(pc, job, n) == [pc |-> pc, job |-> job, n |-> n]
WorkerStep(w, w2) == (workers (-) SetToBag({w})) (+) SetToBag({w2})
WorkerExit(w) == workers (-) SetToBag({w})

\* verificar_conexion, lines 300-319: the connect button
HealthCheck ==
    /\ mainpc = "idle"
    /\ nChecks < MaxChecks
    /\ nChecks' = nChecks + 1
    /\ workers' = IF ip_blank THEN workers
                  ELSE workers (+) SetToBag({Worker("ping", None, nChecks + 1)})
    /\ verdicts' = Append(verdicts, IF ip_blank THEN "skipped" ELSE "pending")
    /\ UNCHANGED <<conectado, sender, poller, samples, parse>>

\* the verificar_conexion calls that started a worker
Started == {i \in DOMAIN verdicts : verdicts[i] # "skipped"}

\* do, lines 310 and 315: what the worker of call n writes to
\* estado["conectado"]
FlagWrite(n, ok) == ok

\* do, lines 308-310 and 315: http_alive returns and the flag is written
WorkerPing(w) ==
    /\ w.pc = "ping"
    /\ \E ok \in BOOLEAN :
          /\ conectado' = FlagWrite(w.n, ok)
          /\ verdicts' = [verdicts EXCEPT ![w.n] = IF ok THEN "ok" ELSE "fail"]
          /\ workers' = IF ok THEN WorkerStep(w, Worker("start", None, w.n))
                        ELSE WorkerExit(w)
    /\ UNCHANGED <<nChecks, sender, poller, samples, parse>>

\* do, line 313: _start_ultra_poll on the worker thread reads ultra_job
\* (line 399)
WorkerStart(w) ==
    /\ w.pc = "start"
    /\ workers' = IF ultra_job = None THEN WorkerStep(w, Worker("arm", None, w.n))
                  ELSE WorkerExit(w)
    /\ halted' = FALSE
    /\ UNCHANGED <<conectado, nChecks, verdicts, ultra_job, poll_timers, nJobs, nPolls, replies,
                   nStarts, sender, samples, parse>>

\* line 400 on the worker thread: root.after is carried out by the event
\* loop between two callbacks
WorkerArm(w) ==
    /\ w.pc = "arm"
    /\ mainpc = "idle"
    /\ poll_timers' = Arm(poll_timers, nJobs + 1, 40)
    /\ nJobs' = nJobs + 1
    /\ workers' = WorkerStep(w, Worker("assign", nJobs + 1, w.n))
    /\ halted' = FALSE
    /\ UNCHANGED <<conectado, nChecks, verdicts, ultra_job, nPolls, replies, nStarts, sender,
                   samples, parse>>

\* line 400 on the worker thread: the id is stored in ultra_job
WorkerAssign(w) ==
    /\ w.pc = "assign"
    /\ ultra_job' = w.job
    /\ workers' = WorkerExit(w)
    /\ halted' = FALSE
    /\ UNCHANGED <<conectado, nChecks, verdicts, poll_timers, nJobs, nPolls, replies, nStarts,
                   sender, samples, parse>>

HealthThread ==
    \E w \in BagToSet(workers) :
        \/ WorkerPing(w)
        \/ WorkerStart(w)
        \/ WorkerArm(w)
        \/ WorkerAssign(w)

\* the poller with its buttons and the health check
NextPoll ==
    \/ StartUltra
    \/ StopUltra
    \/ \E t \in poll_timers : PollTick(t)
    \/ HealthCheck
    \/ HealthThread
    \/ EditIp

SpecPoll == Init /\ [][NextPoll]_vars

\* the connect button pressed, and the health check run, while no _send
\* thread is running
CheckQuiet == threads = EmptyBag /\ nChecks < MaxLinkChecks /\ HealthCheck
HealthQuiet == threads = EmptyBag /\ HealthThread

\* the dispatcher of SpecSerial with the health check; the poller reads
\* conectado and never writes it, its ticks are left out
NextLink ==
    \/ NextSerial
    \/ CheckQuiet
    \/ HealthQuiet

SpecLink == Init /\ [][NextLink]_vars

\* ------------------------------------------------------------ claims
\* the _send threads whose requests.get is outstanding
InCall == {th \in Live : th.pc = "http"}

\* the _send threads between taking pending (line 100) and clearing inflight
\* (line 121)
Sending == {th \in Live :
              th.pc \in {"taken", "http", "success", "regfail", "notify", "finally"}}

\* the _send threads that hold a result they have not yet recorded
Unrecorded == {th \in Live : th.pc \in {"success", "regfail"}}

\* C1: at most one Transport call (the requests.get of _send) of the
\* dispatcher is in flight in every reachable state.
C1_OneTransportCall == Cardinality(InCall) <= 1

\* C2: inflight is true exactly when one send is outstanding, from the moment
\* pending is taken until that send has cleared inflight, and false otherwise.
C2_InflightIffOutstanding == inflight <=> (Cardinality(Sending) = 1)

\* C3: the Transport call of a send never starts less than RATE_LIMIT_MS
\* after the start of the previous one.
C3_RateLimitBetweenStarts ==
    [][(InCall' \ InCall # {} /\ lastStart # -1)
         => now - lastStart >= RATE_LIMIT_MS]_vars

\* C4: in a run of consecutive failures without a success, on_hard_disconnect
\* is called once, when fail_count reaches MAX_FAILS, and never again.
C4_HardDisconnectOnce ==
    /\ nHard <= 1
    /\ fail_count < MAX_FAILS => nHard = 0

C6_NoSendDuringBackoff == [][InCall' \ InCall # {} => now >= holdUntil]_vars

\* C7: pending is the latest submitted command or empty, and a command that a
\* later queue call overwrote in pending is never taken by a _send.
C7_LastWriterWins ==
    /\ pending # None => pending = nSubmitted
    /\ superseded \cap sent = {}

\* C7 witness: a command was overwritten while pending, and a later one sent.
C7_Witness == \E a \in superseded : \E b \in sent : a < b

\* C8: whenever every completed send has recorded its outcome, fail_count is
\* the number of sends that failed since the last send that returned 200.
C8_FailCountIsConsecutiveFails == Unrecorded = {} => fail_count = consecFails

\* C9: while the only unrecorded results are those of calls that returned
\* after shutdown_sender, fail_count and last_ts do not change and neither
\* callback is called.
C9_LateResultDiscarded ==
    [][(shutdown /\ \A th \in Live : th.pc \in {"success", "regfail", "notify"} => th.late)
         => (fail_count' = fail_count /\ last_ts' = last_ts
             /\ nSoft' = nSoft /\ nHard' = nHard)]_vars

\* C10: pending is empty in every state in which shutdown is set.
C10_ShutdownPendingEmpty == shutdown => pending = None


\* C11: a send attempt made with an empty address is not counted as a
\* failure: as long as no requests.get of a _send has ever begun, fail_count
\* is 0 and neither on_soft_error nor on_hard_disconnect has been called.
C11_EmptyAddressNotCounted ==
    lastStart = -1 => (fail_count = 0 /\ nSoft = 0 /\ nHard = 0)

\* C12: after _stop_ultra_poll has returned (every earlier _start_ultra_poll
\* call having returned before it), _poll_ultrasonico does not run again
\* until _start_ultra_poll is called again.
C12_NoTickAfterStop == [][nPolls' = nPolls + 1 => ~halted]_vars

\* C13: whatever the interleaving of the start button and the health-check
\* workers, at most one _poll_ultrasonico timer is armed.
C13_OneTimerChain == Cardinality(poll_timers) <= 1

\* C14: every run of _poll_ultrasonico, whatever its request gave, appends
\* one sample to dist_history and arms the next run ULTRA_POLL_MS later, in
\* place of the timer that fired.
C14_TickPushesAndRearms ==
    [][nPolls' = nPolls + 1
         => (/\ Len(dist_history') = Len(dist_history) + 1
             /\ SubSeq(dist_history', 1, Len(dist_history)) = dist_history
             /\ [id |-> ultra_job', ms |-> ULTRA_POLL_MS] \in poll_timers' \ poll_timers
             /\ Cardinality(poll_timers') = Cardinality(poll_timers))]_vars

\* C15: a run of _poll_ultrasonico that finds conectado false makes no
\* request, appends one None and arms the next run ULTRA_POLL_MS later; a run
\* that finds it true makes the request.
C15_DisconnectedTickSkips ==
    [][nPolls' = nPolls + 1
         => IF conectado
            THEN replies'[nPolls'] # NoCall
            ELSE /\ replies'[nPolls'] = NoCall
                 /\ dist_history' = Append(dist_history, NoDist)
                 /\ [id |-> ultra_job', ms |-> ULTRA_POLL_MS] \in poll_timers' \ poll_timers]_vars

\* a text of digits around one decimal separator, '.' or ','
BareLiteral(t) ==
    \E k \in 2..(Len(t) - 1) :
        /\ t[k] \in {".", ","}
        /\ AllDigits(SubSeq(t, 1, k - 1))
        /\ AllDigits(SubSeq(t, k + 1, Len(t)))

\* the number such a text writes
LiteralValue(t) ==
    LET k == CHOOSE i \in DOMAIN t : t[i] \in {".", ","}
    IN  Float(IntOf(SubSeq(t, 1, k - 1) \o SubSeq(t, k + 1, Len(t))), Len(t) - k)

\* C16: _parse_distance_response returns the number of the "cm" field of a
\* structured body, the number a bare literal writes with '.' or ',' as
\* separator, and None for null and for a body that is neither.
C16_ParsePolicy ==
    parsed # Unparsed =>
        /\ (JsonLoads(body)[1] = "dict" /\ JsonLoads(body)[2] = <<"c", "m">>
              /\ JsonLoads(body)[3][1] = "num")
             => parsed = JsonLoads(body)[3][2]
        /\ BareLiteral(body) => parsed = LiteralValue(body)
        /\ body = Null => parsed = NoDist
        /\ (\A i \in DOMAIN body : body[i] \notin Digit) => parsed = NoDist

\* C17: dist_history never holds more than DIST_HISTORY_LEN samples: it holds
\* the samples pushed so far, or the last DIST_HISTORY_LEN of them, in push
\* order, so its last element is the sample pushed last.
C17_HistoryKeepsLastN ==
    /\ Len(dist_history) = Min(Len(pushed), DIST_HISTORY_LEN)
    /\ \A i \in DOMAIN dist_history :
          dist_history[i] = pushed[Len(pushed) - Len(dist_history) + i]

\* C17 witness: two samples more than DIST_HISTORY_LEN were pushed, a None
\* among the two evicted.
C17_Witness ==
    /\ Len(pushed) = DIST_HISTORY_LEN + 2
    /\ NoDist \in {pushed[1], pushed[2]}
    /\ dist_history[1] = Float(3, 0)
    /\ dist_history[DIST_HISTORY_LEN] = Float(DIST_HISTORY_LEN + 2, 0)

\* C18: once fail_count has reached MAX_FAILS, no requests.get of a _send
\* begins (no health check runs under SpecSerial to lift the stop).
C18_NoSendAfterHardDisconnect ==
    [][InCall' \ InCall # {} => fail_count < MAX_FAILS]_vars

\* C19: on_hard_disconnect leaves conectado false: in the state in which it
\* has just been called, conectado is false.
C19_HardDisconnectClearsFlag == [][nHard' > nHard => ~conectado']_vars

\* the event loop, the timers and the threads have nothing left to do
Quiet == mainpc = "idle" /\ timers = <<>> /\ threads = EmptyBag

\* C20: a command whose send failed below MAX_FAILS is sent again by the
\* backoff pump: when nothing is left to do and shutdown_sender was not
\* called, the run of failures has ended in a 200 or in the hard disconnect.
C20_FailedCommandRetried ==
    (Quiet /\ ~shutdown) => (fail_count = 0 \/ fail_count >= MAX_FAILS)

\* the requests.get of the _send that took command c is outstanding
Called(c) == \E th \in InCall : th.cmd = c

\* a _send thread passes its finally section (line 121) in this step
PassesFinally ==
    \E th \in Live : th.pc = "finally" /\ threads' = Step(th, Thread("repump", th.cmd, 0, th.late))

\* a _send thread that completed a send ends (line 123) in this step
EndsSend == \E th \in Live : th.pc = "repump" /\ threads' = Exit(th)

\* C21: no lost wake-up.  While shutdown_sender is not called, a command in
\* pending, queued while a send was in flight or while the pump waits out the
\* rate-limit window, is eventually handed to requests.get with no further
\* queue call, unless a later queue call overwrites it; and every _send that
\* took a command clears inflight and then re-invokes _pump.
C21_NoLostWakeup ==
    /\ \A c \in 1..MaxLiveSubmits :
          (pending = c /\ ~shutdown) ~> (Called(c) \/ c \in superseded)
    /\ [][/\ PassesFinally => ~inflight'
          /\ EndsSend => (Len(timers') = Len(timers) + 1 /\ Head(timers') = 0)]_vars

\* C21 witness: a command queued while a send was in flight stayed in pending
\* until that send had recorded its 200 and the rate-limit window after it
\* had passed, and is now handed to requests.get.
C21_Witness ==
    \E c \in sent \ superseded :
        /\ <<c, "inflight">> \in queuedBusy
        /\ Called(c)
        /\ last_ts > 0
        /\ lastStart >= last_ts + RATE_LIMIT_MS

\* the _send threads inside get_ip (line 104), requests.get (line 108) or a
\* callback (lines 134, 142)
Calling == {th \in Live : th.pc \in {"taken", "http", "notify"}}

\* whoever holds the lock is inside a "with self.lock:" block, one step from
\* its end
HolderInSection ==
    \/ lock \in {<<"main", "queue">>, <<"main", "shutdown">>} /\ mainpc = "idle"
    \/ lock = <<"main", "pump">> /\ mainpc = "pump"
    \/ \E th \in Live : lock = <<"thread", th>> /\ th.pc \in SectionPcs

\* C22: self.lock is never held by a thread that is inside get_ip,
\* requests.get, on_soft_error or on_hard_disconnect; whoever holds it is
\* inside a "with self.lock:" block that ends with no such call, so queue and
\* shutdown_sender get the lock without waiting for a request to finish.
C22_LockNotHeldAcrossCalls ==
    /\ \A th \in Calling : lock # <<"thread", th>>
    /\ lock # Free => HolderInSection

\* C22 witness: while the requests.get of an earlier command is outstanding,
\* queue has taken the lock, stored the last command and returned, and
\* shutdown_sender now holds the lock.
C22_Witness ==
    /\ InCall # {}
    /\ lock = <<"main", "shutdown">>
    /\ nSubmitted = MaxLockSubmits
    /\ pending = nSubmitted
    /\ \E th \in InCall : th.cmd < nSubmitted

\* the verificar_conexion call that started a worker last
LatestCheck == CHOOSE i \in Started : \A j \in Started : j <= i

\* C23: when verificar_conexion calls overlap, the flag holds the outcome of
\* the call started last: once http_alive of that call has returned,
\* conectado is what it returned, whenever the earlier calls return.
C23_LatestCheckWins ==
    (Started # {} /\ verdicts[LatestCheck] # "pending")
        => (conectado <=> verdicts[LatestCheck] = "ok")
====
